---- MODULE Spec2Model ----
(***************************************************************************)
(* Model of feedly/storage/cassandra/timeline_storage.py: the Batch        *)
(* coordinator (a cqlengine BatchQuery with a buffer of inserts) and       *)
(* CassandraTimelineStorage, the feed timeline kept in one Cassandra       *)
(* column family with primary key (feed_id, activity_id).                  *)
(*                                                                         *)
(* The column family is the set `rows`.  The queries of cqlengine that the *)
(* storage composes (filter, order_by, slicing, count, delete) are the     *)
(* operators of the first section, written as the library evaluates them.  *)
(* The read methods are operators over a table R; every mutating method is *)
(* an action that records what it was called with and how it ended in      *)
(* `last`.                                                                 *)
(***************************************************************************)
EXTENDS Integers, Sequences, FiniteSets, TLC

\* ---------------------------------------------------------------- bounds
MaxId == 3
MaxArgs == 1
MaxQueue == 2
MaxBatchId == 2

Feeds == {"user:1", "user:2"}
Ids == 1..MaxId
Payloads == {"p1", "p2"}
\* trim lengths and slice bounds: 0 up to one past the longest feed
Lengths == 0..(MaxId + 1)

\* ------------------------------------------------------ program constants
\* CassandraTimelineStorage.insert_batch_size
insert_batch_size == 100
\* `limit = 10 ** 6` of get_slice_from_storage
default_limit == 1000000

\* Python's None for an optional integer argument (start, stop)
None == -1
\* feed_id of a model instance that no add_to_storage has stamped
NoFeed == "-"

\* the activities that come in two versions, one per payload
Rewritten == {1}

\* A model instance as the serializer hands it over: the attributes the
\* serializer sets.  Its feed_id attribute is mutable and lives in `feed_id`.
\* Two instances are the same Python object iff they are equal here.
Instances ==
    {o \in [activity_id : Ids, payload : Payloads] :
        o.payload # "p1" => o.activity_id \in Rewritten}

VARIABLES
    rows,           \* the column family: rows [feed_id, activity_id, payload]
    batch_inserts,  \* the caller's Batch: self.batch_inserts[table], a list
    queries,        \* the caller's Batch: statements of the BatchQuery (deletes)
    batch_size,     \* the caller's Batch: self.batch_size
    atomic_inserts, \* the caller's Batch: self.atomic_inserts
    feed_id,        \* feed_id attribute of the instances a Batch refers to
    last,           \* the last call: what it was given and how it ended
    sent,           \* the writes the Batch.execute of the last call got through
    auto_rows,      \* history: the column family, had the calls on the batch
                    \* been made without it (kept by SpecCompose)
    queued_for      \* history: <<key, activity_id>> of the adds made on the
                    \* batch (kept by SpecCompose)

vars == <<rows, batch_inserts, queries, batch_size, atomic_inserts, feed_id,
          last, sent, auto_rows, queued_for>>

\* ------------------------------------------------------ sequences helpers
Range(s) == {s[i] : i \in 1..Len(s)}

Min(a, b) == IF a <= b THEN a ELSE b

Max(a, b) == IF a >= b THEN a ELSE b

\* Python's s[:n]
PySliceTo(s, n) ==
    IF n >= 0 THEN SubSeq(s, 1, Min(n, Len(s)))
    ELSE SubSeq(s, 1, Max(Len(s) + n, 0))

Reverse(s) == [i \in 1..Len(s) |-> s[Len(s) + 1 - i]]

\* sequences of 1..n elements of S
SeqsUpTo(S, n) == UNION {[1..k -> S] : k \in 1..n}

\* ---------------------------------------------------------------- cqlengine
\* The queries the storage builds, evaluated as cqlengine and Cassandra
\* evaluate them on a table whose primary key is (feed_id, activity_id).

\* model.objects.filter(feed_id=key)
filter_feed(R, key) == {r \in R : r.feed_id = key}

\* query.filter(**filter_kwargs): equality on row fields; filter_kwargs is a
\* set of <<field, value>> pairs, empty for None or {}
filter_eq(S, filter_kwargs) == {r \in S : \A f \in filter_kwargs : r[f[1]] = f[2]}

\* faulty variant: ordered by 'activity_id', ascending
RECURSIVE order_by_asc(_)
order_by_asc(S) ==
    IF S = {} THEN <<>>
    ELSE LET m == CHOOSE r \in S : \A s \in S : s.activity_id >= r.activity_id
         IN <<m>> \o order_by_asc(S \ {m})

\* query.order_by('-activity_id'), as the list of its results
RECURSIVE order_by_desc(_)
order_by_desc(S) ==
    IF S = {} THEN <<>>
    ELSE LET m == CHOOSE r \in S : \A s \in S : s.activity_id <= r.activity_id
         IN <<m>> \o order_by_desc(S \ {m})

\* faulty variant: a write that adds a row whatever the table holds under the key
insert_row_append(R, inst, f) ==
    R \cup {[feed_id |-> f, activity_id |-> inst.activity_id, payload |-> inst.payload]}

\* INSERT of one instance whose feed_id attribute is f: an upsert on the
\* primary key
insert_row(R, inst, f) ==
    {r \in R : ~(r.feed_id = f /\ r.activity_id = inst.activity_id)}
        \cup {[feed_id |-> f, activity_id |-> inst.activity_id, payload |-> inst.payload]}

\* faulty variant: a delete that leaves feed_id out of its WHERE clause
delete_row_any_feed(R, key, activity_id) ==
    {r \in R : r.activity_id # activity_id}

\* faulty variant: a delete of the range up to activity_id
delete_row_upto(R, key, activity_id) ==
    {r \in R : ~(r.feed_id = key /\ r.activity_id <= activity_id)}

\* DELETE of the row with primary key (key, activity_id)
delete_row(R, key, activity_id) ==
    {r \in R : ~(r.feed_id = key /\ r.activity_id = activity_id)}

\* -------------------------------------------------------------------- Batch
\* super(Batch, self).execute(): the statements of the BatchQuery, in the
\* order they were attached.  Each is a delete <<feed_id, activity_id>>.
RECURSIVE run_queries(_, _)
run_queries(R, q) ==
    IF q = <<>> THEN R
    ELSE run_queries(delete_row(R, Head(q)[1], Head(q)[2]), Tail(q))

\* one bulk write: the instances of a chunk, each under the feed_id it
\* carries when the chunk is submitted
RECURSIVE insert_chunk(_, _, _)
insert_chunk(R, instances, f) ==
    IF instances = <<>> THEN R
    ELSE insert_chunk(insert_row(R, Head(instances), f[Head(instances)]),
                      Tail(instances), f)

\* modelclass.objects.batch_insert(instances, batch_size, atomic): chunks of
\* at most batch_size instances, one bulk write each
num_chunks(instances, bs) == (Len(instances) + bs - 1) \div bs

chunk(instances, k, bs) ==
    SubSeq(instances, (k - 1) * bs + 1, Min(k * bs, Len(instances)))

\* the first n chunks written
RECURSIVE insert_chunks(_, _, _, _, _)
insert_chunks(R, instances, f, bs, n) ==
    IF n = 0 THEN R
    ELSE insert_chunk(insert_chunks(R, instances, f, bs, n - 1),
                      chunk(instances, n, bs), f)

\* Where the store may fail one execute: 0 nowhere, 1 in the BatchQuery's
\* statements, 1 + k in the k-th chunk of inserts.
fail_points(q, instances, bs) ==
    {0} \cup (IF q = <<>> THEN {} ELSE {1})
        \cup {1 + k : k \in 1..num_chunks(instances, bs)}

\* Batch.batch_insert: append to the list of the instance's table
batch_insert(inserts, model_instance) == Append(inserts, model_instance)

\* The writes one execute hands to the store, in the order it hands them
\* over.  super().execute() sends the statements of the BatchQuery as one
\* BATCH, and nothing when there are none; body: the deletes <<feed_id,
\* activity_id>>.
sent_queries(q) ==
    IF q = <<>> THEN <<>>
    ELSE <<[kind |-> "batch", body |-> q, atomic |-> FALSE]>>

\* the first n bulk writes of batch_insert(instances, batch_size, atomic);
\* body: the rows of the chunk
sent_chunks(instances, f, bs, atomic, n) ==
    [k \in 1..n |->
        [kind |-> "insert",
         body |-> [i \in 1..Len(chunk(instances, k, bs)) |->
                      [feed_id |-> f[chunk(instances, k, bs)[i]],
                       activity_id |-> chunk(instances, k, bs)[i].activity_id,
                       payload |-> chunk(instances, k, bs)[i].payload]],
         atomic |-> atomic]]

\* faulty variant: self.batch_inserts.clear() left out
execute_keeps_buffer(R, f, q, inserts, bs, atomic, fail) ==
    IF fail = 1
    THEN [rows |-> R, queries |-> q, batch_inserts |-> inserts, err |-> "StoreError",
          sent |-> <<>>]
    ELSE IF fail > 1
    THEN [rows |-> insert_chunks(run_queries(R, q), inserts, f, bs, fail - 2),
          queries |-> <<>>, batch_inserts |-> inserts, err |-> "StoreError",
          sent |-> sent_queries(q) \o sent_chunks(inserts, f, bs, atomic, fail - 2)]
    ELSE [rows |-> insert_chunks(run_queries(R, q), inserts, f, bs,
                                 num_chunks(inserts, bs)),
          queries |-> <<>>, batch_inserts |-> inserts, err |-> "none",
          sent |-> sent_queries(q)
                       \o sent_chunks(inserts, f, bs, atomic, num_chunks(inserts, bs))]

\* faulty variant: a failing execute that takes its writes back
execute_rollback(R, f, q, inserts, bs, atomic, fail) ==
    IF fail = 1
    THEN [rows |-> R, queries |-> q, batch_inserts |-> inserts, err |-> "StoreError",
          sent |-> <<>>]
    ELSE IF fail > 1
    THEN [rows |-> R,
          queries |-> <<>>, batch_inserts |-> inserts, err |-> "StoreError",
          sent |-> sent_queries(q) \o sent_chunks(inserts, f, bs, atomic, fail - 2)]
    ELSE [rows |-> insert_chunks(run_queries(R, q), inserts, f, bs,
                                 num_chunks(inserts, bs)),
          queries |-> <<>>, batch_inserts |-> <<>>, err |-> "none",
          sent |-> sent_queries(q)
                       \o sent_chunks(inserts, f, bs, atomic, num_chunks(inserts, bs))]

\* faulty variant: the buffered inserts submitted before super().execute()
execute_inserts_first(R, f, q, inserts, bs, atomic, fail) ==
    IF fail = 1
    THEN [rows |-> R, queries |-> q, batch_inserts |-> inserts, err |-> "StoreError",
          sent |-> <<>>]
    ELSE IF fail > 1
    THEN [rows |-> insert_chunks(R, inserts, f, bs, fail - 2),
          queries |-> q, batch_inserts |-> inserts, err |-> "StoreError",
          sent |-> sent_chunks(inserts, f, bs, atomic, fail - 2)]
    ELSE [rows |-> run_queries(insert_chunks(R, inserts, f, bs,
                                             num_chunks(inserts, bs)), q),
          queries |-> <<>>, batch_inserts |-> <<>>, err |-> "none",
          sent |-> sent_chunks(inserts, f, bs, atomic, num_chunks(inserts, bs))
                       \o sent_queries(q)]

\* Batch.execute on a batch holding statements q and buffered inserts
\* `inserts`: the store afterwards, the batch afterwards, the error raised and
\* the writes that got through.  A failing call raises out of the loop, so
\* self.batch_inserts.clear() is not reached; the BatchQuery forgets its
\* statements once it has sent them.
execute(R, f, q, inserts, bs, atomic, fail) ==
    IF fail = 1
    THEN [rows |-> R, queries |-> q, batch_inserts |-> inserts, err |-> "StoreError",
          sent |-> <<>>]
    ELSE IF fail > 1
    THEN [rows |-> insert_chunks(run_queries(R, q), inserts, f, bs, fail - 2),
          queries |-> <<>>, batch_inserts |-> inserts, err |-> "StoreError",
          sent |-> sent_queries(q) \o sent_chunks(inserts, f, bs, atomic, fail - 2)]
    ELSE [rows |-> insert_chunks(run_queries(R, q), inserts, f, bs,
                                 num_chunks(inserts, bs)),
          queries |-> <<>>, batch_inserts |-> <<>>, err |-> "none",
          sent |-> sent_queries(q)
                       \o sent_chunks(inserts, f, bs, atomic, num_chunks(inserts, bs))]

\* ------------------------------------------------- CassandraTimelineStorage
\* get_batch_interface(): a fresh Batch
get_batch_interface ==
    [batch_inserts |-> <<>>, queries |-> <<>>,
     batch_size |-> insert_batch_size, atomic_inserts |-> FALSE]

\* what get_nth_item hands back when it raises
NoRow == [feed_id |-> NoFeed, activity_id |-> 0, payload |-> ""]

\* The read methods, over the column family R the storage's model reads.
count(R, key) == Cardinality(filter_feed(R, key))

contains(R, key, activity_id) ==
    Cardinality({r \in filter_feed(R, key) : r.activity_id = activity_id}) > 0

\* faulty variant: activity_id__gte in place of activity_id__gt
index_of_gte(R, key, activity_id) ==
    IF Cardinality({r \in filter_feed(R, key) : r.activity_id = activity_id}) = 0
    THEN [err |-> "ValueError", val |-> -1]
    ELSE [err |-> "none",
          val |-> Len(order_by_desc({r \in filter_feed(R, key) :
                                         r.activity_id >= activity_id}))]

\* raises ValueError for an id the feed does not hold
index_of(R, key, activity_id) ==
    IF ~contains(R, key, activity_id)
    THEN [err |-> "ValueError", val |-> -1]
    ELSE [err |-> "none",
          val |-> Len(order_by_desc({r \in filter_feed(R, key) :
                                         r.activity_id > activity_id}))]

\* faulty variant: order_by('activity_id') in place of order_by('-activity_id')
get_nth_item_asc(R, key, index) ==
    LET results == Reverse(order_by_desc(filter_feed(R, key)))
    IN IF index >= Len(results)
       THEN [err |-> "IndexError", val |-> NoRow]
       ELSE [err |-> "none", val |-> results[index + 1]]

\* query[index]: cqlengine raises IndexError past the last result
get_nth_item(R, key, index) ==
    LET results == order_by_desc(filter_feed(R, key))
    IN IF index >= Len(results)
       THEN [err |-> "IndexError", val |-> NoRow]
       ELSE [err |-> "none", val |-> results[index + 1]]

\* faulty variant: activity_id__lt in place of activity_id__lte
get_slice_exclusive(R, key, start, stop, filter_kwargs) ==
    LET query == filter_eq(filter_feed(R, key), filter_kwargs)
        offset_activity_id == get_nth_item(R, key, start)
        limit == IF stop # None THEN stop - (IF start = None THEN 0 ELSE start)
                 ELSE default_limit
    IN IF start \notin {0, None} /\ offset_activity_id.err # "none"
       THEN [err |-> offset_activity_id.err, val |-> <<>>]
       ELSE LET bounded ==
                    IF start \notin {0, None}
                    THEN {r \in query :
                             r.activity_id < offset_activity_id.val.activity_id}
                    ELSE query
                results == PySliceTo(order_by_desc(bounded), limit)
            IN [err |-> "none",
                val |-> [i \in 1..Len(results) |-> <<results[i].activity_id, results[i]>>]]

\* the list of [activity_id, activity] pairs
get_slice_from_storage(R, key, start, stop, filter_kwargs) ==
    LET query == filter_eq(filter_feed(R, key), filter_kwargs)
        offset_activity_id == get_nth_item(R, key, start)
        limit == IF stop # None THEN stop - (IF start = None THEN 0 ELSE start)
                 ELSE default_limit
    IN IF start \notin {0, None} /\ offset_activity_id.err # "none"
       THEN [err |-> offset_activity_id.err, val |-> <<>>]
       ELSE LET bounded ==
                    IF start \notin {0, None}
                    THEN {r \in query :
                             r.activity_id <= offset_activity_id.val.activity_id}
                    ELSE query
                results == PySliceTo(order_by_desc(bounded), limit)
            IN [err |-> "none",
                val |-> [i \in 1..Len(results) |-> <<results[i].activity_id, results[i]>>]]

\* ------------------------------------------------------------------ calls
\* What a call leaves in `last`.  arg: the instances of add, the ids of
\* remove, <<length>> of trim, <<batch_size, atomic_inserts>> as given to
\* Batch, and of execute the
\* numbers of statements and of buffered inserts the batch held.  held: the
\* rows an add or a remove found under the primary keys it names, and a
\* delete under its feed.
call(op, key, batch, arg, err) ==
    [op |-> op, key |-> key, batch |-> batch, arg |-> arg, err |-> err,
     held |-> CASE op = "add" ->
                       {r \in filter_feed(rows, key) :
                           \E i \in 1..Len(arg) : arg[i].activity_id = r.activity_id}
                [] op = "remove" ->
                       {r \in filter_feed(rows, key) : r.activity_id \in Range(arg)}
                [] op = "delete" -> filter_feed(rows, key)
                [] OTHER -> {}]

\* The feed_id attributes the program can still read: those of the instances
\* the caller's batch refers to.  An instance no batch refers to is stamped
\* again by add_to_storage before anything reads its feed_id.
referred(f, inserts) ==
    [o \in Instances |-> IF o \in Range(inserts) THEN f[o] ELSE NoFeed]

\* the `activities` of add_to_storage: a dict activity_id -> instance, as the
\* list of its values in iteration order.  A dict of small integers iterates
\* in ascending order of its keys.
ActivityLists ==
    {a \in SeqsUpTo(Instances, MaxArgs) :
        \A i, j \in 1..Len(a) : i < j => a[i].activity_id < a[j].activity_id}

\* the `activities` of remove_from_storage, as the list of its keys
IdLists ==
    {a \in SeqsUpTo(Ids, MaxArgs) : \A i, j \in 1..Len(a) : i < j => a[i] < a[j]}

\* Batch(batch_size=bs, atomic_inserts=atomic): the caller makes a new batch
Batch_init(bs, atomic) ==
    /\ batch_inserts' = <<>>
    /\ queries' = <<>>
    /\ batch_size' = bs
    /\ atomic_inserts' = FALSE
    /\ feed_id' = referred(feed_id, <<>>)
    /\ last' = call("Batch", "", TRUE, <<bs, atomic>>, "none")
    /\ sent' = <<>>
    /\ UNCHANGED rows

\* batch.execute() by the caller, on the batch it passed to the storage
Batch_execute(fail) ==
    LET done == execute(rows, feed_id, queries, batch_inserts, batch_size,
                        atomic_inserts, fail)
    IN /\ fail \in fail_points(queries, batch_inserts, batch_size)
       /\ rows' = done.rows
       /\ sent' = done.sent
       /\ queries' = done.queries
       /\ batch_inserts' = done.batch_inserts
       /\ feed_id' = referred(feed_id, done.batch_inserts)
       /\ last' = call("execute", "", TRUE, <<Len(queries), Len(batch_inserts)>>, done.err)
       /\ UNCHANGED <<batch_size, atomic_inserts>>

\* the loop of add_to_storage over activities.values(): the inserts buffered
RECURSIVE add_loop(_, _)
add_loop(inserts, activities) ==
    IF activities = <<>> THEN inserts
    ELSE add_loop(batch_insert(inserts, Head(activities)), Tail(activities))

\* the loop of add_to_storage: model_instance.feed_id = str(key)
stamp(f, key, activities) ==
    [o \in Instances |-> IF o \in Range(activities) THEN key ELSE f[o]]

\* faulty variant: batch.execute() whether or not the caller passed a batch
add_and_execute(key, activities, batch_interface, fail) ==
    LET stamped == stamp(feed_id, key, activities)
        q == IF batch_interface THEN queries ELSE <<>>
        inserts == add_loop(IF batch_interface THEN batch_inserts ELSE <<>>, activities)
        bs == IF batch_interface THEN batch_size ELSE insert_batch_size
        done == execute(rows, stamped, q, inserts, bs, FALSE, fail)
    IN /\ fail \in fail_points(q, inserts, bs)
       /\ rows' = done.rows
       /\ sent' = done.sent
       /\ queries' = IF batch_interface THEN done.queries ELSE queries
       /\ batch_inserts' = IF batch_interface THEN done.batch_inserts ELSE batch_inserts
       /\ feed_id' = referred(stamped, batch_inserts')
       /\ last' = call("add", key, batch_interface, activities, done.err)
       /\ UNCHANGED <<batch_size, atomic_inserts>>

\* add_to_storage(key, activities, batch_interface): batch_interface is TRUE
\* for the caller's batch, FALSE for None
add_to_storage(key, activities, batch_interface, fail) ==
    LET stamped == stamp(feed_id, key, activities)
    IN IF batch_interface
       THEN /\ fail = 0
            /\ Len(queries) + Len(batch_inserts) + Len(activities) <= MaxQueue
            /\ batch_inserts' = add_loop(batch_inserts, activities)
            /\ feed_id' = referred(stamped, batch_inserts')
            /\ last' = call("add", key, TRUE, activities, "none")
            /\ sent' = <<>>
            /\ UNCHANGED <<rows, queries, batch_size, atomic_inserts>>
       ELSE LET batch == get_batch_interface
                inserts == add_loop(batch.batch_inserts, activities)
                done == execute(rows, stamped, batch.queries, inserts,
                                batch.batch_size, batch.atomic_inserts, fail)
            IN /\ fail \in fail_points(batch.queries, inserts, batch.batch_size)
               /\ rows' = done.rows
               /\ sent' = done.sent
               /\ feed_id' = referred(stamped, batch_inserts)
               /\ last' = call("add", key, FALSE, activities, done.err)
               /\ UNCHANGED <<batch_inserts, queries, batch_size, atomic_inserts>>

\* the deletes remove_from_storage attaches to the batch
remove_queries(key, activities) ==
    [i \in 1..Len(activities) |-> <<key, activities[i]>>]

\* faulty variant: the deletes attached and batch.execute() left out
remove_never_executes(key, activities, batch_interface, fail) ==
    /\ fail = 0
    /\ Len(queries) + Len(batch_inserts) + Len(activities) <= MaxQueue
    /\ queries' = IF batch_interface
                  THEN queries \o remove_queries(key, activities) ELSE queries
    /\ last' = call("remove", key, batch_interface, activities, "none")
    /\ sent' = <<>>
    /\ UNCHANGED <<rows, batch_inserts, batch_size, atomic_inserts, feed_id>>

\* remove_from_storage(key, activities, batch_interface)
remove_from_storage(key, activities, batch_interface, fail) ==
    IF batch_interface
    THEN /\ fail = 0
         /\ Len(queries) + Len(batch_inserts) + Len(activities) <= MaxQueue
         /\ queries' = queries \o remove_queries(key, activities)
         /\ last' = call("remove", key, TRUE, activities, "none")
         /\ sent' = <<>>
         /\ UNCHANGED <<rows, batch_inserts, batch_size, atomic_inserts, feed_id>>
    ELSE LET batch == get_batch_interface
             q == batch.queries \o remove_queries(key, activities)
             done == execute(rows, feed_id, q, batch.batch_inserts,
                             batch.batch_size, batch.atomic_inserts, fail)
         IN /\ fail \in fail_points(q, batch.batch_inserts, batch.batch_size)
            /\ rows' = done.rows
            /\ sent' = done.sent
            /\ last' = call("remove", key, FALSE, activities, done.err)
            /\ UNCHANGED <<batch_inserts, queries, batch_size, atomic_inserts, feed_id>>

\* faulty variant: a delete that takes only the newest row of the feed
delete_newest(key) ==
    /\ rows' = rows \ {r \in filter_feed(rows, key) :
                           \A s \in filter_feed(rows, key) : s.activity_id <= r.activity_id}
    /\ last' = call("delete", key, FALSE, <<>>, "none")
    /\ sent' = <<>>
    /\ UNCHANGED <<batch_inserts, queries, batch_size, atomic_inserts, feed_id>>

\* delete(key): one DELETE of the partition feed_id = key
delete(key) ==
    /\ rows' = rows \ filter_feed(rows, key)
    /\ last' = call("delete", key, FALSE, <<>>, "none")
    /\ sent' = <<>>
    /\ UNCHANGED <<batch_inserts, queries, batch_size, atomic_inserts, feed_id>>

\* the deletes trim attaches to the batch: one for every row of the feed
\* below the boundary, in the table's clustering order
trim_queries(R, key, last_activity) ==
    LET below == {r \in filter_feed(R, key) : r.activity_id < last_activity[1]}
        listed == Reverse(order_by_desc(below))
    IN [i \in 1..Len(listed) |-> <<key, listed[i].activity_id>>]

\* trim(key, length, batch_interface).  [-1] of an empty slice raises
\* IndexError before anything is attached; a non-empty slice ends in a
\* two-element list, which is always true in `if last_activity`.
trim(key, length, batch_interface, fail) ==
    LET slice == get_slice_from_storage(rows, key, 0, length, {}).val
    IN IF slice = <<>>
       THEN /\ fail = 0
            /\ last' = call("trim", key, batch_interface, <<length>>, "IndexError")
            /\ sent' = <<>>
            /\ UNCHANGED <<rows, batch_inserts, queries, batch_size,
                           atomic_inserts, feed_id>>
       ELSE LET last_activity == slice[Len(slice)]
                deletes == trim_queries(rows, key, last_activity)
            IN IF batch_interface
               THEN /\ fail = 0
                    /\ Len(queries) + Len(batch_inserts) + Len(deletes) <= MaxQueue
                    /\ queries' = queries \o deletes
                    /\ last' = call("trim", key, TRUE, <<length>>, "none")
                    /\ sent' = <<>>
                    /\ UNCHANGED <<rows, batch_inserts, batch_size,
                                   atomic_inserts, feed_id>>
               ELSE LET batch == get_batch_interface
                        q == batch.queries \o deletes
                        done == execute(rows, feed_id, q, batch.batch_inserts,
                                        batch.batch_size, batch.atomic_inserts,
                                        fail)
                    IN /\ fail \in fail_points(q, batch.batch_inserts,
                                               batch.batch_size)
                       /\ rows' = done.rows
                       /\ sent' = done.sent
                       /\ last' = call("trim", key, FALSE, <<length>>, done.err)
                       /\ UNCHANGED <<batch_inserts, queries, batch_size,
                                      atomic_inserts, feed_id>>

\* ------------------------------------------------------------ specifications
Init ==
    /\ rows = {}
    /\ batch_inserts = get_batch_interface.batch_inserts
    /\ queries = get_batch_interface.queries
    /\ batch_size = get_batch_interface.batch_size
    /\ atomic_inserts = get_batch_interface.atomic_inserts
    /\ feed_id = [o \in Instances |-> NoFeed]
    /\ last = call("init", "", FALSE, <<>>, "none")
    /\ sent = <<>>
    /\ auto_rows = {}
    /\ queued_for = {}

Add == \E key \in Feeds, activities \in ActivityLists :
           /\ add_to_storage(key, activities, FALSE, 0)
           /\ UNCHANGED <<auto_rows, queued_for>>

Remove == \E key \in Feeds, activities \in IdLists :
              /\ remove_from_storage(key, activities, FALSE, 0)
              /\ UNCHANGED <<auto_rows, queued_for>>

Delete == \E key \in Feeds : delete(key) /\ UNCHANGED <<auto_rows, queued_for>>

Trim == \E key \in Feeds, length \in Lengths :
            /\ trim(key, length, FALSE, 0)
            /\ UNCHANGED <<auto_rows, queued_for>>

\* the storage called without a batch, on a store that answers every call:
\* each call commits by itself
Next == Add \/ Remove \/ Delete \/ Trim

Spec == Init /\ [][Next]_vars

\* The storage called by one caller that also holds a Batch, on a store that
\* may fail any write: the caller may pass the batch to add, remove and trim,
\* execute it, or replace it by a new one.  The ids, payloads and trim lengths
\* the caller uses here are bounded more tightly than above, the queue of the
\* batch being part of the state.
\* the places one call may fail
Fails == 0..(1 + MaxQueue)

BatchIds == 1..MaxBatchId

BatchActivityLists ==
    {a \in ActivityLists :
        \A i \in 1..Len(a) :
            /\ a[i].activity_id \in BatchIds
            /\ a[i].payload = "p1"}

BatchIdLists == {a \in IdLists : Range(a) \subseteq BatchIds}

BatchLengths == 0..MaxBatchId

BatchAdd == \E key \in Feeds, activities \in BatchActivityLists,
               batch_interface \in BOOLEAN, fail \in Fails :
                /\ add_to_storage(key, activities, batch_interface, fail)
                /\ UNCHANGED <<auto_rows, queued_for>>

BatchRemove == \E key \in Feeds, activities \in BatchIdLists,
                  batch_interface \in BOOLEAN, fail \in Fails :
                   /\ remove_from_storage(key, activities, batch_interface, fail)
                   /\ UNCHANGED <<auto_rows, queued_for>>

BatchTrim == \E key \in Feeds, length \in BatchLengths,
                batch_interface \in BOOLEAN, fail \in Fails :
                 /\ trim(key, length, batch_interface, fail)
                 /\ UNCHANGED <<auto_rows, queued_for>>

NewBatch == \E bs \in {1, insert_batch_size}, atomic \in BOOLEAN :
                /\ Batch_init(bs, atomic)
                /\ UNCHANGED <<auto_rows, queued_for>>

Execute == \E fail \in Fails :
               /\ Batch_execute(fail)
               /\ UNCHANGED <<auto_rows, queued_for>>

NextBatch == BatchAdd \/ BatchRemove \/ BatchTrim \/ NewBatch \/ Execute

SpecBatch == Init /\ [][NextBatch]_vars

\* The caller composing one flush: it makes a Batch, passes it to a number of
\* add, remove and trim calls that return, and executes it once, on a store
\* that answers every call.  Next to the program's state the history keeps
\* what the same calls do when each is made without a batch.
\* add_to_storage(key, activities) with batch_interface None, on table R
auto_add(R, key, activities) ==
    execute(R, stamp(feed_id, key, activities), get_batch_interface.queries,
            add_loop(get_batch_interface.batch_inserts, activities),
            get_batch_interface.batch_size, get_batch_interface.atomic_inserts,
            0).rows

\* remove_from_storage(key, activities) with batch_interface None, on table R
auto_remove(R, key, activities) ==
    execute(R, feed_id, get_batch_interface.queries \o remove_queries(key, activities),
            get_batch_interface.batch_inserts, get_batch_interface.batch_size,
            get_batch_interface.atomic_inserts, 0).rows

\* trim(key, length) with batch_interface None, on a table R where it returns
auto_trim(R, key, length) ==
    LET slice == get_slice_from_storage(R, key, 0, length, {}).val
    IN execute(R, feed_id,
               get_batch_interface.queries
                   \o trim_queries(R, key, slice[Len(slice)]),
               get_batch_interface.batch_inserts, get_batch_interface.batch_size,
               get_batch_interface.atomic_inserts, 0).rows

\* the batch has not been executed since it was made
Composing == last.op # "execute"

ComposeAdd == \E key \in Feeds, activities \in BatchActivityLists :
                  /\ Composing
                  /\ add_to_storage(key, activities, TRUE, 0)
                  /\ auto_rows' = auto_add(auto_rows, key, activities)
                  /\ queued_for' = queued_for
                         \cup {<<key, activities[i].activity_id>> :
                                  i \in 1..Len(activities)}

ComposeRemove == \E key \in Feeds, activities \in BatchIdLists :
                     /\ Composing
                     /\ remove_from_storage(key, activities, TRUE, 0)
                     /\ auto_rows' = auto_remove(auto_rows, key, activities)
                     /\ UNCHANGED queued_for

\* a trim that returns on the batch and would return without it
ComposeTrim == \E key \in Feeds, length \in BatchLengths :
                   /\ Composing
                   /\ get_slice_from_storage(rows, key, 0, length, {}).val # <<>>
                   /\ get_slice_from_storage(auto_rows, key, 0, length, {}).val # <<>>
                   /\ trim(key, length, TRUE, 0)
                   /\ auto_rows' = auto_trim(auto_rows, key, length)
                   /\ UNCHANGED queued_for

ComposeNewBatch == \E bs \in {1, insert_batch_size}, atomic \in BOOLEAN :
                       /\ Batch_init(bs, atomic)
                       /\ auto_rows' = rows
                       /\ queued_for' = {}

ComposeExecute == /\ Composing
                  /\ Batch_execute(0)
                  /\ UNCHANGED <<auto_rows, queued_for>>

NextCompose ==
    ComposeAdd \/ ComposeRemove \/ ComposeTrim \/ ComposeNewBatch \/ ComposeExecute

SpecCompose == Init /\ [][NextCompose]_vars

\* --------------------------------------------------------------- properties
\* the activity ids feed `key` holds in column family R
feed_ids(R, key) == {r.activity_id : r \in filter_feed(R, key)}

\* the n largest elements of S (all of S when it has fewer)
Largest(S, n) == {x \in S : Cardinality({y \in S : y > x}) < n}

\* this step is a call of op without a batch that the store did not fail
Called(op) == last'.op = op /\ ~last'.batch /\ last'.err # "StoreError"

\* this step is a call of op without a batch that returned
Returned(op) == last'.op = op /\ ~last'.batch /\ last'.err = "none"

\* C1: after trim(K, N) without a batch, for every N >= 0, count(K) <= N and K
\* retains exactly the N largest ids it held before; a feed of at most N
\* entries is left as it was.
C1_TrimKeepsNewest ==
    [][\A K \in Feeds, N \in Lengths :
          (Called("trim") /\ last'.key = K /\ last'.arg = <<N>>) =>
              /\ count(rows', K) <= N
              /\ feed_ids(rows', K) = Largest(feed_ids(rows, K), N)
              /\ (count(rows, K) <= N => rows' = rows)]_vars

\* C2: trim on a feed without rows returns without raising and leaves
\* count(K) = 0.
C2_TrimEmptyFeed ==
    [][\A K \in Feeds :
          (last'.op = "trim" /\ last'.key = K /\ count(rows, K) = 0) =>
              (last'.err = "none" /\ count(rows', K) = 0)]_vars

\* C3: once add(K, E) without a batch has returned, slice(K, 0, count(K)) lists
\* exactly the ids K held before together with those of E, each once, in
\* strictly descending order; from the empty feed that is exactly the ids added.
C3_SliceListsAdded ==
    [][\A K \in Feeds :
          (Returned("add") /\ last'.key = K) =>
              \A s \in {get_slice_from_storage(rows', K, 0, count(rows', K), {})} :
                  /\ s.err = "none"
                  /\ {s.val[i][1] : i \in 1..Len(s.val)} =
                         feed_ids(rows, K)
                             \cup {last'.arg[i].activity_id : i \in 1..Len(last'.arg)}
                  /\ \A i, j \in 1..Len(s.val) : i < j => s.val[i][1] > s.val[j][1]
                  /\ \A i \in 1..Len(s.val) :
                         /\ s.val[i][2].activity_id = s.val[i][1]
                         /\ s.val[i][2].feed_id = K]_vars

C3_Witness ==
    /\ last.op = "add" /\ ~last.batch /\ last.err = "none"
    /\ last.held = {}
    /\ count(rows, last.key) = MaxId
    /\ Len(get_slice_from_storage(rows, last.key, 0, count(rows, last.key), {}).val) = MaxId

\* C4: over add and remove calls, contains(K, A) is true exactly of the ids
\* added and not removed since: nothing is contained at the start, an add makes
\* its ids contained in its feed, a remove makes its ids not contained, and
\* neither changes any other answer.
C4_ContainsTracksAddRemove ==
    /\ \A F \in Feeds, A \in Ids : last.op = "init" => ~contains(rows, F, A)
    /\ [][/\ Returned("add") =>
                \A F \in Feeds, A \in Ids :
                    contains(rows', F, A) <=>
                        \/ contains(rows, F, A)
                        \/ /\ F = last'.key
                           /\ \E i \in 1..Len(last'.arg) : last'.arg[i].activity_id = A
          /\ Returned("remove") =>
                \A F \in Feeds, A \in Ids :
                    contains(rows', F, A) <=>
                        /\ contains(rows, F, A)
                        /\ ~(F = last'.key /\ A \in Range(last'.arg))]_vars

C4_Witness ==
    /\ last.op = "remove" /\ ~last.batch /\ last.err = "none"
    /\ last.held # {}
    /\ ~contains(rows, last.key, last.arg[1])
    /\ \E F \in Feeds : F # last.key /\ contains(rows, F, last.arg[1])
    /\ count(rows, last.key) > 0

\* C5: index_of(K, A) of a present id is its rank in the descending listing of
\* K (0 for the maximum, one more for each smaller id); of an absent id it
\* raises.
C5_IndexOfIsRank ==
    \A K \in Feeds, A \in Ids :
        LET listing == get_slice_from_storage(rows, K, 0, None, {}).val
            i == index_of(rows, K, A)
        IN IF A \in feed_ids(rows, K)
           THEN /\ i.err = "none"
                /\ i.val = Cardinality({B \in feed_ids(rows, K) : B > A})
                /\ listing[i.val + 1][1] = A
                /\ \A B \in feed_ids(rows, K) :
                       B < A => index_of(rows, K, B).val > i.val
           ELSE i.err = "ValueError"

C5_Witness ==
    \E K \in Feeds :
        /\ count(rows, K) = MaxId
        /\ index_of(rows, K, MaxId).val = 0
        /\ index_of(rows, K, 1).val = MaxId - 1
        /\ \E F \in Feeds : index_of(rows, F, 1).err = "ValueError"

\* C6: after remove(K, {A}) without a batch, contains(K, A) is false and
\* count(K) is one less if K held A, unchanged if it did not.
C6_RemoveOne ==
    [][\A K \in Feeds, A \in Ids :
          (Returned("remove") /\ last'.key = K /\ last'.arg = <<A>>) =>
              /\ ~contains(rows', K, A)
              /\ count(rows', K) = IF contains(rows, K, A) THEN count(rows, K) - 1
                                  ELSE count(rows, K)]_vars

C6_Witness ==
    /\ last.op = "remove" /\ ~last.batch /\ last.err = "none" /\ Len(last.arg) = 1
    /\ last.held # {}
    /\ ~contains(rows, last.key, last.arg[1])
    /\ count(rows, last.key) = MaxId - 1

\* C7: adding an id the feed already holds overwrites the entry: count(K) is
\* unchanged, K holds one row for the id and the row carries the new payload.
C7_AddOverwrites ==
    [][\A K \in Feeds, inst \in Instances :
          (Returned("add") /\ last'.key = K /\ last'.arg = <<inst>>
              /\ contains(rows, K, inst.activity_id)) =>
              LET held == {r \in filter_feed(rows', K) :
                              r.activity_id = inst.activity_id}
              IN /\ count(rows', K) = count(rows, K)
                 /\ Cardinality(held) = 1
                 /\ \A r \in held : r.payload = inst.payload]_vars

\* an add has returned that found its id in the feed under the other payload
C7_Witness ==
    /\ last.op = "add" /\ ~last.batch /\ last.err = "none" /\ Len(last.arg) = 1
    /\ \E r \in last.held : r.payload # last.arg[1].payload
    /\ count(rows, last.key) = MaxId
    /\ \E r \in filter_feed(rows, last.key) :
           r.activity_id = last.arg[1].activity_id /\ r.payload = last.arg[1].payload

\* C9: get_nth_item(K, idx) of an index below the length of K is the entry of K
\* with exactly idx larger ids in K; from the length on it raises IndexError.
C9_NthItemIsRank ==
    \A K \in Feeds, idx \in Lengths :
        LET n == get_nth_item(rows, K, idx)
        IN IF idx < count(rows, K)
           THEN /\ n.err = "none"
                /\ n.val \in filter_feed(rows, K)
                /\ Cardinality({B \in feed_ids(rows, K) : B > n.val.activity_id}) = idx
           ELSE n.err = "IndexError" /\ n.val = NoRow

C9_Witness ==
    \E K \in Feeds :
        /\ count(rows, K) = MaxId
        /\ get_nth_item(rows, K, MaxId - 1).val.activity_id = 1
        /\ get_nth_item(rows, K, MaxId).err = "IndexError"

\* C10: without filters, for 0 < start <= stop and start < count(K),
\* slice(K, start, stop) is the entries at descending ranks start..stop-1 of K,
\* cut at the end of the feed, in descending order.
C10_SliceIsSubList ==
    \A K \in Feeds, start \in Lengths, stop \in Lengths :
        (0 < start /\ start <= stop /\ start < count(rows, K)) =>
            LET s == get_slice_from_storage(rows, K, start, stop, {})
                ids == feed_ids(rows, K)
                ranked == {A \in ids :
                              LET rank == Cardinality({B \in ids : B > A})
                              IN start <= rank /\ rank < stop}
            IN /\ s.err = "none"
               /\ Len(s.val) = Cardinality(ranked)
               /\ {s.val[i][1] : i \in 1..Len(s.val)} = ranked
               /\ \A i, j \in 1..Len(s.val) : i < j => s.val[i][1] > s.val[j][1]
               /\ \A i \in 1..Len(s.val) :
                      s.val[i][2] \in filter_feed(rows, K)
                          /\ s.val[i][2].activity_id = s.val[i][1]

C10_Witness ==
    \E K \in Feeds :
        /\ count(rows, K) = MaxId
        /\ Len(get_slice_from_storage(rows, K, 1, MaxId - 1, {}).val) = MaxId - 2
        /\ get_slice_from_storage(rows, K, 1, MaxId + 1, {}).val[MaxId - 1][1] = 1


\* the primary keys the buffered inserts of the batch write
queue_keys == {<<feed_id[batch_inserts[i]], batch_inserts[i].activity_id>> :
                  i \in 1..Len(batch_inserts)}

\* the payload the last buffered insert under primary key k carries
queue_payload(k) ==
    LET i == CHOOSE i \in 1..Len(batch_inserts) :
                 /\ <<feed_id[batch_inserts[i]], batch_inserts[i].activity_id>> = k
                 /\ \A j \in (i + 1)..Len(batch_inserts) :
                        <<feed_id[batch_inserts[j]], batch_inserts[j].activity_id>> # k
    IN batch_inserts[i].payload

\* column family R holds the whole queue applied to the current one: every
\* buffered insert is there, every delete not overwritten by an insert took
\* its row away, and every other row is as before
AllApplied(R) ==
    LET touched == queue_keys \cup Range(queries)
        untouched(T) == {r \in T : <<r.feed_id, r.activity_id>> \notin touched}
    IN /\ untouched(R) = untouched(rows)
       /\ \A k \in Range(queries) \ queue_keys : ~contains(R, k[1], k[2])
       /\ \A k \in queue_keys :
              {r \in R : <<r.feed_id, r.activity_id>> = k}
                  = {[feed_id |-> k[1], activity_id |-> k[2], payload |-> queue_payload(k)]}

\* C8, as stated: whatever was queued on the caller's batch is invisible until
\* an execute() has returned successfully, so a step that involves the batch
\* leaves the column family as it was unless it is an execute() that returns,
\* and then all of the queue is applied.
C8_InvisibleUntilExecuteReturns ==
    [][last'.batch =>
          \/ rows' = rows
          \/ last'.op = "execute" /\ last'.err = "none" /\ AllApplied(rows')]_vars

\* C8 as the code has it: queueing on the batch never changes the column
\* family, an execute() that returns has applied the whole queue, and an
\* execute() that raises leaves either nothing applied or the deletes and the
\* insert chunks before the failing one.
C8_InvisibleUntilExecute ==
    [][last'.batch =>
          \/ rows' = rows /\ last'.op # "execute"
          \/ last'.op = "execute" /\ last'.err = "none" /\ AllApplied(rows')
          \/ /\ last'.op = "execute" /\ last'.err = "StoreError"
             /\ \/ rows' = rows
                \/ \E n \in 0..Len(batch_inserts) :
                       rows' = insert_chunk(run_queries(rows, queries),
                                            SubSeq(batch_inserts, 1, n), feed_id)]_vars

\* an execute() has returned that held one delete and one insert, both applied
C8_Witness ==
    /\ last.op = "execute" /\ last.err = "none" /\ last.arg = <<1, 1>>
    /\ batch_inserts = <<>> /\ queries = <<>>
    /\ rows # {}

\* C11: slice(K, start, stop) with start > 0 on a feed of at most start entries
\* returns the empty list and does not raise.
C11_SlicePastEndIsEmpty ==
    \A K \in Feeds, start \in Lengths, stop \in Lengths :
        (0 < start /\ count(rows, K) <= start) =>
            LET s == get_slice_from_storage(rows, K, start, stop, {})
            IN s.err = "none" /\ s.val = <<>>

\* C12: after delete(K) feed K has no rows: count(K) = 0 and contains(K, A) is
\* false for every id A, whatever K held before, and the call does not raise,
\* on an empty feed either.
C12_DeleteEmptiesFeed ==
    [][\A K \in Feeds :
          (last'.op = "delete" /\ last'.key = K) =>
              /\ last'.err = "none"
              /\ count(rows', K) = 0
              /\ \A A \in Ids : ~contains(rows', K, A)]_vars

\* a delete has returned that found the feed full, and the other feed has rows
C12_Witness ==
    /\ last.op = "delete" /\ last.err = "none"
    /\ Cardinality(last.held) = MaxId
    /\ count(rows, last.key) = 0
    /\ \A A \in Ids : ~contains(rows, last.key, A)
    /\ \E F \in Feeds : F # last.key /\ count(rows, F) > 0

\* C13: add, remove and trim execute the batch themselves exactly when the
\* caller gave none.  A call that returns and was given the caller's batch
\* leaves the rows as they were, sends nothing to the store and only appends
\* its inserts or deletes to that batch; a call that returns and was given no
\* batch has applied its mutation to the rows and leaves the caller's batch as
\* it was.
C13_ExecutesIffNoBatch ==
    [][\A K \in Feeds :
          (last'.op \in {"add", "remove", "trim"} /\ last'.key = K
              /\ last'.err = "none") =>
              IF last'.batch
              THEN /\ rows' = rows
                   /\ sent' = <<>>
                   /\ CASE last'.op = "add" ->
                               /\ batch_inserts' = batch_inserts \o last'.arg
                               /\ queries' = queries
                        [] last'.op = "remove" ->
                               /\ queries' = queries \o remove_queries(K, last'.arg)
                               /\ batch_inserts' = batch_inserts
                        [] OTHER ->
                               /\ batch_inserts' = batch_inserts
                               /\ SubSeq(queries', 1, Len(queries)) = queries
                               /\ {queries'[i] : i \in (Len(queries) + 1)..Len(queries')}
                                      = {<<K, A>> : A \in feed_ids(rows, K)
                                            \ Largest(feed_ids(rows, K), last'.arg[1])}
              ELSE /\ queries' = queries
                   /\ batch_inserts' = batch_inserts
                   /\ CASE last'.op = "add" ->
                               \A i \in 1..Len(last'.arg) :
                                   \E r \in filter_feed(rows', K) :
                                       /\ r.activity_id = last'.arg[i].activity_id
                                       /\ r.payload = last'.arg[i].payload
                        [] last'.op = "remove" ->
                               \A i \in 1..Len(last'.arg) :
                                   ~contains(rows', K, last'.arg[i])
                        [] OTHER ->
                               feed_ids(rows', K)
                                   = Largest(feed_ids(rows, K), last'.arg[1])]_vars

\* a remove given the caller's batch has returned: its delete is on the batch,
\* next to an insert queued before, and the row it names is still there
C13_Witness ==
    /\ last.op = "remove" /\ last.batch /\ last.err = "none"
    /\ last.held # {}
    /\ batch_inserts # <<>>
    /\ queries # <<>>
    /\ contains(rows, queries[Len(queries)][1], queries[Len(queries)][2])
    /\ sent = <<>>

\* the rows the bulk writes of s carry, in the order they were submitted
RECURSIVE written(_)
written(s) ==
    IF s = <<>> THEN <<>>
    ELSE (IF Head(s).kind = "insert" THEN Head(s).body ELSE <<>>) \o written(Tail(s))

\* the rows the buffered inserts of the caller's batch stand for
buffered ==
    [i \in 1..Len(batch_inserts) |->
        [feed_id |-> feed_id[batch_inserts[i]],
         activity_id |-> batch_inserts[i].activity_id,
         payload |-> batch_inserts[i].payload]]

\* C14: an execute() that returns submits every buffered insert once, in the
\* order queued, and leaves the buffer empty; an execute() on an empty buffer
\* submits no insert; an add given the batch submits nothing and appends to
\* the buffer, so what it queues waits for the next execute().
C14_ExecuteFlushesOnce ==
    [][/\ (last'.op = "execute" /\ last'.err = "none") =>
              /\ written(sent') = buffered
              /\ batch_inserts' = <<>>
       /\ (last'.op = "execute" /\ batch_inserts = <<>>) => written(sent') = <<>>
       /\ (last'.op = "add" /\ last'.batch) =>
              /\ sent' = <<>>
              /\ rows' = rows
              /\ batch_inserts' = batch_inserts \o last'.arg]_vars

\* an execute() has returned that submitted two inserts in two bulk writes
C14_Witness ==
    /\ last.op = "execute" /\ last.err = "none" /\ last.arg[2] = 2
    /\ Len(sent) = 2 /\ Len(written(sent)) = 2
    /\ batch_inserts = <<>>
    /\ \A i \in 1..2 : sent[i].body[1] \in rows

\* C15: an execute() that raises in the chunked inserts (the BatchQuery has
\* sent its statements, so its list is empty afterwards) has no rollback: the
\* deletes and the chunks flushed before the failure stay in the store.  The
\* chunks that got through are a proper prefix of the buffer, each of their
\* rows is in the store, every deleted row they do not write again is gone,
\* every other row is as before, and the buffer is kept.
C15_NoRollback ==
    [][(last'.op = "execute" /\ last'.err = "StoreError" /\ queries' = <<>>) =>
          /\ Len(written(sent')) < Len(buffered)
          /\ written(sent') = SubSeq(buffered, 1, Len(written(sent')))
          /\ \A i \in 1..Len(written(sent')) :
                 \E r \in rows' :
                     /\ r.feed_id = written(sent')[i].feed_id
                     /\ r.activity_id = written(sent')[i].activity_id
          /\ \A i \in 1..Len(queries) :
                 \/ ~contains(rows', queries[i][1], queries[i][2])
                 \/ \E j \in 1..Len(written(sent')) :
                        /\ written(sent')[j].feed_id = queries[i][1]
                        /\ written(sent')[j].activity_id = queries[i][2]
          /\ \A r \in rows :
                 (\A i \in 1..Len(queries) :
                      <<r.feed_id, r.activity_id>> # queries[i]) =>
                     \E t \in rows' :
                         t.feed_id = r.feed_id /\ t.activity_id = r.activity_id
          /\ batch_inserts' = batch_inserts]_vars

\* an execute() of two buffered inserts has raised in the second bulk write:
\* the row of the first is in the store, that of the second is not
C15_Witness ==
    /\ last.op = "execute" /\ last.err = "StoreError" /\ last.arg[2] = 2
    /\ Len(written(sent)) = 1
    /\ Len(batch_inserts) = 2
    /\ buffered[1] \in rows
    /\ buffered[2] \notin rows
    /\ buffered[1] = written(sent)[1]

\* C16: within one execute() the statements of the BatchQuery (the deletes of
\* remove and trim) reach the store before any buffered insert, in whatever
\* order they were queued: no bulk write of inserts precedes the BATCH, an
\* execute() that returns sends the BATCH with all the deletes first, and a
\* row both deleted and inserted by the batch is in the store afterwards.
C16_DeletesBeforeInserts ==
    [][/\ \A i, j \in 1..Len(sent') :
              (sent'[i].kind = "batch" /\ sent'[j].kind = "insert") => i < j
       /\ (last'.op = "execute" /\ last'.err = "none" /\ queries # <<>>) =>
              /\ sent'[1].kind = "batch"
              /\ sent'[1].body = queries
              /\ \A i \in 2..Len(sent') : sent'[i].kind = "insert"
              /\ \A i \in 1..Len(queries), j \in 1..Len(buffered) :
                     (buffered[j].feed_id = queries[i][1]
                         /\ buffered[j].activity_id = queries[i][2]) =>
                         contains(rows', queries[i][1], queries[i][2])]_vars

\* an execute() has returned that sent a delete and then an insert of the same
\* row; the insert was queued first, for the calls made without the batch
\* leave the row out
C16_Witness ==
    /\ last.op = "execute" /\ last.err = "none"
    /\ Len(sent) = 2
    /\ sent[1].kind = "batch" /\ sent[2].kind = "insert"
    /\ \E i \in 1..Len(sent[1].body), j \in 1..Len(sent[2].body) :
           /\ sent[2].body[j].feed_id = sent[1].body[i][1]
           /\ sent[2].body[j].activity_id = sent[1].body[i][2]
           /\ contains(rows, sent[1].body[i][1], sent[1].body[i][2])
           /\ ~contains(auto_rows, sent[1].body[i][1], sent[1].body[i][2])

\* C17: execute() submits every chunk of inserts with the atomicity flag the
\* Batch was constructed with: the constructor keeps the atomic_inserts it is
\* given, no call changes it afterwards, and every bulk write of an execute()
\* carries it.
C17_AtomicFlagHonoured ==
    [][/\ last'.op = "Batch" => atomic_inserts' = last'.arg[2]
       /\ last'.op # "Batch" => atomic_inserts' = atomic_inserts
       /\ last'.op = "execute" =>
              \A i \in 1..Len(sent') :
                  sent'[i].kind = "insert" => sent'[i].atomic = atomic_inserts]_vars

\* C18: add, remove and trim calls made on one batch and followed by a single
\* execute() leave the store as the same calls, in the same order and each
\* without a batch, leave it.
C18_BatchEqualsAutoCommit ==
    (last.op = "execute" /\ last.err = "none") => rows = auto_rows

\* C19: every insert queued by add(K, entries, batch) is written to feed K when
\* the batch executes, also when the same entry objects are passed to an add
\* for another feed before the flush: after execute() every feed holds every
\* id an add on the batch was given for it.
C19_QueuedInsertsReachTheirFeed ==
    (last.op = "execute" /\ last.err = "none") =>
        \A k \in queued_for : contains(rows, k[1], k[2])

\* the filter_kwargs of a slice: none, or equality on the payload of the row
Filters == {{}} \cup {{<<"payload", p>>} : p \in Payloads}

\* C20: pagination is consistent.  For every feed K, filter set F and
\* 0 < m < n with m < count(K), slice(K, 0, m, F) followed by slice(K, m, n, F)
\* is slice(K, 0, n, F), nothing skipped and nothing twice, and every entry
\* returned satisfies F.
C20_PaginationConsistent ==
    \A K \in Feeds, F \in Filters, m \in Lengths, n \in Lengths :
        (0 < m /\ m < n /\ m < count(rows, K)) =>
            LET first == get_slice_from_storage(rows, K, 0, m, F)
                second == get_slice_from_storage(rows, K, m, n, F)
                both == get_slice_from_storage(rows, K, 0, n, F)
            IN /\ first.err = "none" /\ second.err = "none" /\ both.err = "none"
               /\ first.val \o second.val = both.val
               /\ \A i \in 1..Len(both.val) :
                      both.val[i][2] \in filter_eq(filter_feed(rows, K), F)

====
